---- MODULE Spec2Model ----
(***************************************************************************)
(* ColumnDB: the Python wrapper class ColumnDB (columndb/__init__.py) over *)
(* the native backend object _columndb.ColumnDB.  The wrapper is modelled  *)
(* from its source; the native backend (column store and .cdb file codec)  *)
(* is modelled from its specification.                                     *)
(***************************************************************************)
EXTENDS Integers, Sequences, FiniteSets, TLC

VARIABLES
    db,        \* the ColumnDB instance the caller holds: _db, _columns, _filename
    origin,    \* how that instance was obtained: "fresh" or "loaded"
    file,      \* contents of the .cdb file at Path, or Absent
    res,       \* the last call: operation, column name, value, outcome, return value
    inserted,  \* history: per column, number of entries successfully inserted
    snap       \* history: what the saving instance reported when it last saved

vars == <<db, origin, file, res, inserted, snap>>

----------------------------------------------------------------------------
(* Bounds and input sets *)

MaxEntries == 2      \* an insert is attempted only on an instance holding fewer entries

Names == {"a", "b"}
Path == "data.cdb"

----------------------------------------------------------------------------
(* class DataType *)

DataType_INT32 == 0
DataType_INT64 == 1
DataType_FLOAT32 == 2
DataType_FLOAT64 == 3
DataType_STRING == 4
DataType_BOOL == 5

DataTypes == {DataType_INT32, DataType_INT64, DataType_FLOAT32, DataType_FLOAT64, DataType_STRING, DataType_BOOL}

\* data_type arguments tried by add_column: the members, and values outside
TypeInputs == DataTypes \cup {0 - 1, 999}

\* the (name, data_type) pairs tried by add_column
ColumnInputs == ({"a"} \X TypeInputs) \cup ({"b"} \X {DataType_BOOL})

----------------------------------------------------------------------------
(* Python values.  Every value is a record of one shape: k is the Python   *)
(* type, n the number (floats are counted in quarters), s the text.        *)

PyNone == [k |-> "none", n |-> 0, s |-> ""]
PyInt(i) == [k |-> "int", n |-> i, s |-> ""]
PyFloat(q) == [k |-> "float", n |-> q, s |-> ""]
PyStr(t) == [k |-> "str", n |-> 0, s |-> t]
PyBool(f) == [k |-> "bool", n |-> IF f THEN 1 ELSE 0, s |-> ""]

\* values tried by insert: None, 7.25, "x"
ValueInputs == {PyNone, PyFloat(29), PyStr("x")}

\* literals the bounded parsers recognise
LiteralRange == 0 .. 9

FracText(r) == CASE r = 0 -> "0" [] r = 1 -> "25" [] r = 2 -> "5" [] OTHER -> "75"

FloatText(q) ==
    IF q >= 0
    THEN ToString(q \div 4) \o "." \o FracText(q % 4)
    ELSE "-" \o ToString((0 - q) \div 4) \o "." \o FracText((0 - q) % 4)

Trunc(q) == IF q >= 0 THEN q \div 4 ELSE 0 - ((0 - q) \div 4)

IsIntLiteral(t) == \E i \in LiteralRange : ToString(i) = t
IntLiteral(t) == CHOOSE i \in LiteralRange : ToString(i) = t

\* a conversion either yields a value or raises
Raised(cls, kind) == [ok |-> FALSE, cls |-> cls, kind |-> kind, v |-> PyNone]
Yield(v) == [ok |-> TRUE, cls |-> "", kind |-> "", v |-> v]

\* int(value)
py_int(v) ==
    CASE v.k = "int" -> Yield(v)
      [] v.k = "bool" -> Yield(PyInt(v.n))
      [] v.k = "float" -> Yield(PyInt(Trunc(v.n)))
      [] v.k = "str" -> IF IsIntLiteral(v.s) THEN Yield(PyInt(IntLiteral(v.s)))
                        ELSE Raised("ValueError", "InvalidLiteral")
      [] OTHER -> Raised("TypeError", "InvalidLiteral")

\* float(value)
py_float(v) ==
    CASE v.k = "float" -> Yield(v)
      [] v.k \in {"int", "bool"} -> Yield(PyFloat(v.n * 4))
      [] v.k = "str" -> IF IsIntLiteral(v.s) THEN Yield(PyFloat(IntLiteral(v.s) * 4))
                        ELSE Raised("ValueError", "InvalidLiteral")
      [] OTHER -> Raised("TypeError", "InvalidLiteral")

\* str(value)
py_str(v) ==
    CASE v.k = "str" -> Yield(v)
      [] v.k = "int" -> Yield(PyStr(ToString(v.n)))
      [] v.k = "float" -> Yield(PyStr(FloatText(v.n)))
      [] v.k = "bool" -> Yield(PyStr(IF v.n = 1 THEN "True" ELSE "False"))
      [] OTHER -> Yield(PyStr("None"))

\* bool(value)
py_bool(v) ==
    CASE v.k = "str" -> Yield(PyBool(Len(v.s) > 0))
      [] OTHER -> Yield(PyBool(v.n # 0))

----------------------------------------------------------------------------
(* The native backend _columndb.ColumnDB: Column Store.  Its state is the  *)
(* ordered sequence of columns; each column has a value sequence and a     *)
(* parallel presence sequence.                                             *)

NewBackend == <<>>

Failed(err, b) == [ok |-> FALSE, err |-> err, db |-> b]
Done(b) == [ok |-> TRUE, err |-> "", db |-> b]

c_has(b, name) == \E i \in 1 .. Len(b) : b[i].name = name
c_index(b, name) == CHOOSE i \in 1 .. Len(b) : b[i].name = name

c_add_column(b, name, type) ==
    IF c_has(b, name) THEN Failed("DuplicateColumn", b)
    ELSE IF type \notin DataTypes THEN Failed("InvalidType", b)
    ELSE Done(Append(b, [name |-> name, data_type |-> type,
                         values |-> <<>>, presence |-> <<>>]))

\* the kind of value a column of the type holds
KindOf(type) ==
    CASE type \in {DataType_INT32, DataType_INT64} -> "int"
      [] type \in {DataType_FLOAT32, DataType_FLOAT64} -> "float"
      [] type = DataType_STRING -> "str"
      [] OTHER -> "bool"

\* the defined-but-ignored value slot of a NULL entry
Placeholder(type) == [k |-> KindOf(type), n |-> 0, s |-> ""]

\* single precision keeps fewer digits: here halves, where doubles keep quarters
c_float32(q) == IF q >= 0 THEN q - (q % 2) ELSE 0 - ((0 - q) - ((0 - q) % 2))

\* the backend accepts already-typed values only
Representable(type, v) == v.k = KindOf(type)

Stored(type, v) == IF type = DataType_FLOAT32 THEN PyFloat(c_float32(v.n)) ELSE v

AppendEntry(b, i, v, present) ==
    [b EXCEPT ![i].values = Append(@, v), ![i].presence = Append(@, present)]

c_insert_null(b, name) ==
    IF ~c_has(b, name) THEN Failed("UnknownColumn", b)
    ELSE LET i == c_index(b, name)
         IN Done(AppendEntry(b, i, Placeholder(b[i].data_type), FALSE))

\* insert_int32 .. insert_bool: type names the function called
c_insert(b, name, type, v) ==
    IF ~c_has(b, name) THEN Failed("UnknownColumn", b)
    ELSE LET i == c_index(b, name)
         IN IF b[i].data_type # type \/ ~Representable(type, v)
            THEN Failed("TypeMismatch", b)
            ELSE Done(AppendEntry(b, i, Stored(type, v), TRUE))

Entries(col) ==
    [j \in 1 .. Len(col.values) |-> IF col.presence[j] THEN col.values[j] ELSE PyNone]

c_get_column_data(b, name) ==
    IF ~c_has(b, name) THEN [ok |-> FALSE, err |-> "UnknownColumn", data |-> <<>>]
    ELSE [ok |-> TRUE, err |-> "", data |-> Entries(b[c_index(b, name)])]

Max(S) == IF S = {} THEN 0 ELSE CHOOSE m \in S : \A x \in S : x <= m

c_get_num_rows(b) == Max({Len(b[i].values) : i \in 1 .. Len(b)})

c_get_num_columns(b) == Len(b)

c_get_column_names(b) == [i \in 1 .. Len(b) |-> b[i].name]

----------------------------------------------------------------------------
(* The native backend: Value Codec and File Codec.  A file is a sequence   *)
(* of fields; a field is a record of one shape: tag is its width and       *)
(* layout, n its number, s its raw bytes.                                  *)

Absent == <<[tag |-> "absent", n |-> 0, s |-> ""]>>

U32(i) == [tag |-> "u32", n |-> i, s |-> ""]
U8(i) == [tag |-> "u8", n |-> i, s |-> ""]
Raw(t) == [tag |-> "raw", n |-> 0, s |-> t]

Magic == Raw("CDB")
Version == U32(1)

WireTag(type) ==
    CASE type = DataType_INT32 -> "i32"
      [] type = DataType_INT64 -> "i64"
      [] type = DataType_FLOAT32 -> "f32"
      [] type = DataType_FLOAT64 -> "f64"
      [] OTHER -> "u8"

EncodeString(t) == <<U32(Len(t)), Raw(t)>>

\* encode(type, value) -> bytes
encode(type, v) ==
    IF type = DataType_STRING THEN EncodeString(v.s)
    ELSE <<[tag |-> WireTag(type), n |-> v.n, s |-> ""]>>

NoValue(cursor) == [ok |-> FALSE, v |-> PyNone, cursor |-> cursor]

\* a length-prefixed string at the cursor
DecodeString(bytes, cursor) ==
    IF cursor + 1 > Len(bytes) THEN NoValue(cursor)
    ELSE IF bytes[cursor].tag # "u32" \/ bytes[cursor + 1].tag # "raw" THEN NoValue(cursor)
    ELSE IF Len(bytes[cursor + 1].s) # bytes[cursor].n THEN NoValue(cursor)
    ELSE [ok |-> TRUE, v |-> PyStr(bytes[cursor + 1].s), cursor |-> cursor + 2]

\* decode(type, bytes, cursor) -> (value, new_cursor)
decode(type, bytes, cursor) ==
    IF type = DataType_STRING THEN DecodeString(bytes, cursor)
    ELSE IF cursor > Len(bytes) THEN NoValue(cursor)
    ELSE IF bytes[cursor].tag # WireTag(type) THEN NoValue(cursor)
    ELSE [ok |-> TRUE, v |-> [k |-> KindOf(type), n |-> bytes[cursor].n, s |-> ""],
          cursor |-> cursor + 1]

RECURSIVE WriteSchema(_, _)
WriteSchema(b, i) ==
    IF i > Len(b) THEN <<>>
    ELSE EncodeString(b[i].name) \o <<U8(b[i].data_type)>> \o WriteSchema(b, i + 1)

RECURSIVE WriteEntries(_, _)
WriteEntries(col, j) ==
    IF j > Len(col.values) THEN <<>>
    ELSE (IF col.presence[j] THEN <<U8(1)>> \o encode(col.data_type, col.values[j])
          ELSE <<U8(0)>>) \o WriteEntries(col, j + 1)

RECURSIVE WriteData(_, _)
WriteData(b, i) ==
    IF i > Len(b) THEN <<>>
    ELSE <<U32(Len(b[i].values))>> \o WriteEntries(b[i], 1) \o WriteData(b, i + 1)

\* the full layout: header, schema section, data section
Serialize(b) == <<Magic, Version, U32(Len(b))>> \o WriteSchema(b, 1) \o WriteData(b, 1)

Corrupt(cursor) == [ok |-> FALSE, db |-> NewBackend, cursor |-> cursor]

RECURSIVE ReadSchema(_, _, _, _)
ReadSchema(f, cursor, todo, b) ==
    IF todo = 0 THEN [ok |-> TRUE, db |-> b, cursor |-> cursor]
    ELSE LET nm == DecodeString(f, cursor)
         IN IF ~nm.ok \/ nm.cursor > Len(f) THEN Corrupt(cursor)
            ELSE LET tg == f[nm.cursor]
                 IN IF tg.tag # "u8" \/ tg.n \notin DataTypes \/ c_has(b, nm.v.s)
                    THEN Corrupt(cursor)
                    ELSE ReadSchema(f, nm.cursor + 1, todo - 1,
                                    Append(b, [name |-> nm.v.s, data_type |-> tg.n,
                                               values |-> <<>>, presence |-> <<>>]))

RECURSIVE ReadEntries(_, _, _, _, _)
ReadEntries(f, cursor, todo, b, i) ==
    IF todo = 0 THEN [ok |-> TRUE, db |-> b, cursor |-> cursor]
    ELSE IF cursor > Len(f) THEN Corrupt(cursor)
    ELSE IF f[cursor].tag # "u8" \/ f[cursor].n \notin {0, 1} THEN Corrupt(cursor)
    ELSE IF f[cursor].n = 0
         THEN ReadEntries(f, cursor + 1, todo - 1,
                          AppendEntry(b, i, Placeholder(b[i].data_type), FALSE), i)
    ELSE LET d == decode(b[i].data_type, f, cursor + 1)
         IN IF ~d.ok THEN Corrupt(cursor)
            ELSE ReadEntries(f, d.cursor, todo - 1, AppendEntry(b, i, d.v, TRUE), i)

RECURSIVE ReadData(_, _, _, _)
ReadData(f, cursor, b, i) ==
    IF i > Len(b) THEN [ok |-> TRUE, db |-> b, cursor |-> cursor]
    ELSE IF cursor > Len(f) THEN Corrupt(cursor)
    ELSE IF f[cursor].tag # "u32" THEN Corrupt(cursor)
    ELSE LET col == ReadEntries(f, cursor + 1, f[cursor].n, b, i)
         IN IF ~col.ok THEN Corrupt(cursor)
            ELSE ReadData(f, col.cursor, col.db, i + 1)

Deserialize(f) ==
    IF Len(f) < 3 THEN Corrupt(1)
    ELSE IF f[1] # Magic \/ f[2] # Version \/ f[3].tag # "u32" THEN Corrupt(1)
    ELSE LET sch == ReadSchema(f, 4, f[3].n, NewBackend)
         IN IF ~sch.ok THEN Corrupt(sch.cursor)
            ELSE ReadData(f, sch.cursor, sch.db, 1)

\* save(path): the new contents of the file, which a failed write leaves as it was
c_save(b, old, written) ==
    IF written THEN [ok |-> TRUE, err |-> "", file |-> Serialize(b)]
    ELSE [ok |-> FALSE, err |-> "IOError", file |-> old]

\* load(path) into a new backend object
c_load(f) ==
    IF f = Absent THEN Failed("FileNotFound", NewBackend)
    ELSE LET d == Deserialize(f)
         IN IF d.ok THEN Done(d.db) ELSE Failed("CorruptData", NewBackend)

----------------------------------------------------------------------------
(* class ColumnDB, the wrapper.  An instance is a record of its fields:    *)
(* _db the backend object, _columns the name -> type dict in insertion     *)
(* order, _filename ("" for None).  A method yields the instance after the *)
(* call, the exception raised (cls "" when it returns) and its result.     *)

NoRet == [num |-> 0, data |-> <<>>, schema |-> <<>>]

Return(self, ret) == [self |-> self, cls |-> "", kind |-> "", ret |-> ret]
Raise(self, cls, kind) == [self |-> self, cls |-> cls, kind |-> kind, ret |-> NoRet]

HasKey(columns, name) == \E i \in 1 .. Len(columns) : columns[i].name = name
Lookup(columns, name) == columns[CHOOSE i \in 1 .. Len(columns) : columns[i].name = name].type

\* ColumnDB() with no filename
NewInstance == [_db |-> NewBackend, _columns |-> <<>>, _filename |-> ""]

\* add_column testing only the upper end of the enumeration
add_column_upper_only(self, name, data_type) ==
    IF HasKey(self._columns, name) THEN Raise(self, "ValueError", "DuplicateColumn")
    ELSE IF data_type > DataType_BOOL THEN Raise(self, "ValueError", "InvalidType")
    ELSE LET r == c_add_column(self._db, name, data_type)
         IN IF r.ok
            THEN Return([self EXCEPT !._db = r.db,
                                     !._columns = Append(@, [name |-> name, type |-> data_type])],
                        NoRet)
            ELSE Raise(self, "RuntimeError", r.err)

\* add_column starting the backend object anew
add_column_rebuilding(self, name, data_type) ==
    IF HasKey(self._columns, name) THEN Raise(self, "ValueError", "DuplicateColumn")
    ELSE IF data_type < DataType_INT32 \/ data_type > DataType_BOOL
         THEN Raise(self, "ValueError", "InvalidType")
    ELSE LET r == c_add_column(NewBackend, name, data_type)
         IN IF r.ok
            THEN Return([self EXCEPT !._db = r.db,
                                     !._columns = Append(@, [name |-> name, type |-> data_type])],
                        NoRet)
            ELSE Raise(self, "RuntimeError", r.err)

add_column(self, name, data_type) ==
    IF HasKey(self._columns, name) THEN Raise(self, "ValueError", "DuplicateColumn")
    ELSE IF data_type < DataType_INT32 \/ data_type > DataType_BOOL
         THEN Raise(self, "ValueError", "InvalidType")
    ELSE LET r == c_add_column(self._db, name, data_type)
         IN IF r.ok
            THEN Return([self EXCEPT !._db = r.db,
                                     !._columns = Append(@, [name |-> name, type |-> data_type])],
                        NoRet)
            ELSE Raise(self, "RuntimeError", r.err)

\* the conversion insert applies before the typed backend call
Convert(data_type, value) ==
    CASE data_type \in {DataType_INT32, DataType_INT64} -> py_int(value)
      [] data_type \in {DataType_FLOAT32, DataType_FLOAT64} -> py_float(value)
      [] data_type = DataType_STRING -> py_str(value)
      [] data_type = DataType_BOOL -> py_bool(value)
      [] OTHER -> Raised("ValueError", "UnknownDataType")

\* insert with the type dispatch not chained to the None test: a None goes
\* to insert_null and then on to the typed branch
insert_falling_through(self, column_name, value) ==
    IF ~HasKey(self._columns, column_name) THEN Raise(self, "ValueError", "UnknownColumn")
    ELSE LET data_type == Lookup(self._columns, column_name)
             first == IF value = PyNone THEN c_insert_null(self._db, column_name)
                      ELSE Done(self._db)
             after == [self EXCEPT !._db = first.db]
             conv == Convert(data_type, value)
             r == c_insert(first.db, column_name, data_type, conv.v)
         IN IF ~first.ok THEN Raise(self, "RuntimeError", first.err)
            ELSE IF ~conv.ok THEN Raise(after, conv.cls, conv.kind)
            ELSE IF r.ok THEN Return([self EXCEPT !._db = r.db], NoRet)
            ELSE Raise(after, "RuntimeError", r.err)

insert(self, column_name, value) ==
    IF ~HasKey(self._columns, column_name) THEN Raise(self, "ValueError", "UnknownColumn")
    ELSE LET data_type == Lookup(self._columns, column_name)
             conv == Convert(data_type, value)
             r == IF value = PyNone THEN c_insert_null(self._db, column_name)
                  ELSE c_insert(self._db, column_name, data_type, conv.v)
         IN IF value # PyNone /\ ~conv.ok THEN Raise(self, conv.cls, conv.kind)
            ELSE IF r.ok THEN Return([self EXCEPT !._db = r.db], NoRet)
            ELSE Raise(self, "RuntimeError", r.err)

\* get_column_data filling a short column with None up to get_num_rows
get_column_data_padded(self, column_name) ==
    LET r == c_get_column_data(self._db, column_name)
        rows == c_get_num_rows(self._db)
    IN IF r.ok
       THEN Return(self, [NoRet EXCEPT !.data =
                [j \in 1 .. rows |-> IF j <= Len(r.data) THEN r.data[j] ELSE PyNone]])
       ELSE Raise(self, "ValueError", "UnknownColumn")

\* get_column_data letting the backend's RuntimeError through
get_column_data_reraise(self, column_name) ==
    LET r == c_get_column_data(self._db, column_name)
    IN IF r.ok THEN Return(self, [NoRet EXCEPT !.data = r.data])
       ELSE Raise(self, "RuntimeError", r.err)

get_column_data(self, column_name) ==
    LET r == c_get_column_data(self._db, column_name)
    IN IF r.ok THEN Return(self, [NoRet EXCEPT !.data = r.data])
       ELSE Raise(self, "ValueError", "UnknownColumn")

\* get_num_rows asking the backend for the wrong count
get_num_rows_columns(self) == Return(self, [NoRet EXCEPT !.num = c_get_num_columns(self._db)])

get_num_rows(self) == Return(self, [NoRet EXCEPT !.num = c_get_num_rows(self._db)])

\* get_num_columns counting the tracking dict
get_num_columns_tracked(self) == Return(self, [NoRet EXCEPT !.num = Len(self._columns)])

get_num_columns(self) == Return(self, [NoRet EXCEPT !.num = c_get_num_columns(self._db)])

type_names(dtype) ==
    CASE dtype = DataType_INT32 -> "int32"
      [] dtype = DataType_INT64 -> "int64"
      [] dtype = DataType_FLOAT32 -> "float32"
      [] dtype = DataType_FLOAT64 -> "float64"
      [] dtype = DataType_STRING -> "string"
      [] OTHER -> "bool"

\* has_names: whether the backend object has a get_column_names attribute
get_schema(self, has_names) ==
    IF self._columns # <<>>
    THEN Return(self, [NoRet EXCEPT !.schema =
             [i \in 1 .. Len(self._columns) |->
                 [name |-> self._columns[i].name, type |-> type_names(self._columns[i].type)]]])
    ELSE IF has_names
    THEN LET column_names == c_get_column_names(self._db)
         IN Return(self, [NoRet EXCEPT !.schema =
                [i \in 1 .. Len(column_names) |-> [name |-> column_names[i], type |-> "unknown"]]])
    ELSE Return(self, NoRet)

\* save removing the file at the path before the backend writes it
save_unlinking(self, filename, old, written) ==
    LET named == [self EXCEPT !._filename = filename]
        r == c_save(self._db, Absent, written)
    IN [call |-> IF r.ok THEN Return(named, NoRet) ELSE Raise(named, "RuntimeError", r.err),
        file |-> r.file]

\* save resetting the tracking dict
save_resetting(self, filename, old, written) ==
    LET named == [self EXCEPT !._filename = filename, !._columns = <<>>]
        r == c_save(self._db, old, written)
    IN [call |-> IF r.ok THEN Return(named, NoRet) ELSE Raise(named, "RuntimeError", r.err),
        file |-> r.file]

\* save also yields the file; written: whether the backend's write succeeds
save(self, filename, old, written) ==
    LET named == [self EXCEPT !._filename = filename]
        r == c_save(self._db, old, written)
    IN [call |-> IF r.ok THEN Return(named, NoRet) ELSE Raise(named, "RuntimeError", r.err),
        file |-> r.file]

\* load returning the instance after the backend's load failed
load_swallowing(filename, f) ==
    LET r == c_load(f)
    IN Return([_db |-> r.db, _columns |-> <<>>, _filename |-> filename], NoRet)

\* load keeping a backend object that never read the file
load_unassigned(filename, f) ==
    LET r == c_load(f)
    IN IF r.ok THEN Return([_db |-> NewBackend, _columns |-> <<>>, _filename |-> filename], NoRet)
       ELSE Raise(NewInstance, "RuntimeError", r.err)

\* classmethod: yields the new instance, or raises and yields none
load(filename, f) ==
    LET r == c_load(f)
    IN IF r.ok THEN Return([_db |-> r.db, _columns |-> <<>>, _filename |-> filename], NoRet)
       ELSE Raise(NewInstance, "RuntimeError", r.err)

\* ColumnDB(filename), "" for no filename; f: the file at the path, Absent
\* when the path does not exist.  self.load is the classmethod: the instance
\* it returns is dropped, its exception propagates.
__init__(filename, f) ==
    LET self == [_db |-> NewBackend, _columns |-> <<>>, _filename |-> filename]
    IN IF filename # "" /\ f # Absent
       THEN LET out == load(filename, f)
            IN IF out.cls = "" THEN Return(self, NoRet)
               ELSE Raise(self, out.cls, out.kind)
       ELSE Return(self, NoRet)

----------------------------------------------------------------------------
(* The caller: one instance at a time, one file.                           *)

Call(op, name, value, out) ==
    [op |-> op, name |-> name, value |-> value,
     cls |-> out.cls, kind |-> out.kind, ret |-> out.ret]

\* what an instance reports: per name, per backend build
Observe(self) ==
    [data |-> [n \in Names |-> [cls |-> get_column_data(self, n).cls,
                                 data |-> get_column_data(self, n).ret.data]],
     rows |-> get_num_rows(self).ret.num,
     cols |-> get_num_columns(self).ret.num,
     schema |-> [h \in BOOLEAN |-> get_schema(self, h).ret.schema]]

NoSnap == [saved |-> FALSE, seen |-> Observe(NewInstance), inserted |-> [n \in Names |-> 0]]

RECURSIVE SumLen(_, _)
SumLen(b, i) == IF i > Len(b) THEN 0 ELSE Len(b[i].values) + SumLen(b, i + 1)

\* entries held by an instance, over all its columns
NumEntries(self) == SumLen(self._db, 1)

Init ==
    /\ db = NewInstance
    /\ origin = "fresh"
    /\ file = Absent
    /\ res = Call("__init__", "", PyNone, Return(NewInstance, NoRet))
    /\ inserted = [n \in Names |-> 0]
    /\ snap = NoSnap

AddColumn ==
    \E p \in ColumnInputs :
        LET out == add_column(db, p[1], p[2])
        IN /\ db' = out.self
           /\ res' = Call("add_column", p[1], PyNone, out)
           /\ UNCHANGED <<origin, file, inserted, snap>>

Insert ==
    \E name \in Names, value \in ValueInputs :
        /\ NumEntries(db) < MaxEntries
        /\ LET out == insert(db, name, value)
           IN /\ db' = out.self
              /\ res' = Call("insert", name, value, out)
              /\ inserted' = IF out.cls = "" THEN [inserted EXCEPT ![name] = @ + 1]
                             ELSE inserted
        /\ UNCHANGED <<origin, file, snap>>

GetColumnData ==
    \E name \in Names :
        LET out == get_column_data(db, name)
        IN /\ db' = out.self
           /\ res' = Call("get_column_data", name, PyNone, out)
           /\ UNCHANGED <<origin, file, inserted, snap>>

GetNumRows ==
    LET out == get_num_rows(db)
    IN /\ db' = out.self
       /\ res' = Call("get_num_rows", "", PyNone, out)
       /\ UNCHANGED <<origin, file, inserted, snap>>

GetNumColumns ==
    LET out == get_num_columns(db)
    IN /\ db' = out.self
       /\ res' = Call("get_num_columns", "", PyNone, out)
       /\ UNCHANGED <<origin, file, inserted, snap>>

GetSchema ==
    \E has_names \in BOOLEAN :
        LET out == get_schema(db, has_names)
        IN /\ db' = out.self
           /\ res' = Call("get_schema", "", PyNone, out)
           /\ UNCHANGED <<origin, file, inserted, snap>>

Save ==
    \E written \in BOOLEAN :
        LET out == save(db, Path, file, written)
        IN /\ db' = out.call.self
           /\ file' = out.file
           /\ res' = Call("save", Path, PyNone, out.call)
           /\ snap' = IF out.call.cls = ""
                      THEN [saved |-> TRUE, seen |-> Observe(db), inserted |-> inserted]
                      ELSE snap
           /\ UNCHANGED <<origin, inserted>>

Load ==
    LET out == load(Path, file)
    IN /\ res' = Call("load", Path, PyNone, out)
       /\ IF out.cls = ""
          THEN /\ db' = out.self
               /\ origin' = "loaded"
               /\ inserted' = snap.inserted
          ELSE UNCHANGED <<db, origin, inserted>>
       /\ UNCHANGED <<file, snap>>

Next ==
    \/ AddColumn
    \/ Insert
    \/ GetColumnData
    \/ GetNumRows
    \/ GetNumColumns
    \/ GetSchema
    \/ Save
    \/ Load

Spec == Init /\ [][Next]_vars

----------------------------------------------------------------------------
(* Opening files: the file at Path was written by some instance and then   *)
(* possibly damaged; the caller opens it with load or with the constructor *)

\* the instances add_column and insert build in at most k calls
RECURSIVE Built(_)
Built(k) ==
    IF k = 0 THEN {NewInstance}
    ELSE LET S == Built(k - 1)
         IN S \cup {add_column(s, p[1], p[2]).self : s \in S, p \in ColumnInputs}
              \cup {insert(s, q[1], q[2]).self :
                        s \in {t \in S : NumEntries(t) < MaxEntries}, q \in Names \X ValueInputs}

Instances == Built(Cardinality(Names) + MaxEntries)

\* the file a successful save of the instance leaves
Intact(self) == save(self, Path, Absent, TRUE).file

\* ways a file gets damaged: another magic token, a later format version, a
\* lost tail, a count or length field that says one more than is there, a
\* type tag outside the enumeration
Damaged(f) ==
    {[f EXCEPT ![1] = Raw("XDB")], [f EXCEPT ![2] = U32(2)], SubSeq(f, 1, Len(f) - 1)}
    \cup {[f EXCEPT ![i] = U32(@.n + 1)] : i \in {j \in 3 .. Len(f) : f[j].tag = "u32"}}
    \cup {[f EXCEPT ![i] = U8(9)] : i \in {j \in {6} : j <= Len(f)}}

OpenInit ==
    \E s \in Instances :
        \E f \in {Intact(s)} \cup Damaged(Intact(s)) \cup {g \in {Absent} : s = NewInstance} :
            /\ db = NewInstance
            /\ origin = "fresh"
            /\ file = f
            /\ res = Call("__init__", "", PyNone, __init__("", Absent))
            /\ inserted = [n \in Names |-> 0]
            /\ snap = [saved |-> f = Intact(s), seen |-> Observe(s),
                       inserted |-> [n \in Names |-> Len(get_column_data(s, n).ret.data)]]

Construct ==
    \E filename \in {"", Path} :
        LET out == __init__(filename, file)
        IN /\ res' = Call("__init__", filename, PyNone, out)
           /\ IF out.cls = ""
              THEN /\ db' = out.self
                   /\ origin' = "fresh"
                   /\ inserted' = [n \in Names |-> 0]
              ELSE UNCHANGED <<db, origin, inserted>>
           /\ UNCHANGED <<file, snap>>

OpenNext ==
    \/ Load
    \/ Construct

OpenSpec == OpenInit /\ [][OpenNext]_vars

----------------------------------------------------------------------------
(* Properties *)

Succeeded(r) == r.cls = ""

ColumnData(self, name) == get_column_data(self, name).ret.data
NumRows(self) == get_num_rows(self).ret.num
NumColumns(self) == get_num_columns(self).ret.num

\* the columns of the Database, by name
ColumnNames(self) == {self._db[i].name : i \in 1 .. Len(self._db)}

\* the declared type of a column the Database contains
DeclaredType(self, name) == self._db[c_index(self._db, name)].data_type

\* C1: after a successful load, get_column_data of every name, get_num_rows
\* and get_num_columns on the loaded Database are what the saving Database
\* reported when it wrote the file.
C1_RoundTripData ==
    (res.op = "load" /\ Succeeded(res)) =>
        /\ \A n \in Names :
              /\ get_column_data(db, n).cls = snap.seen.data[n].cls
              /\ ColumnData(db, n) = snap.seen.data[n].data
        /\ NumRows(db) = snap.seen.rows
        /\ NumColumns(db) = snap.seen.cols

\* a loaded Database with a NULL next to a value in one column and no entry in another
C1_Witness ==
    /\ res.op = "load" /\ Succeeded(res)
    /\ \E n \in Names :
          /\ Len(ColumnData(db, n)) = 2
          /\ \E j, k \in 1 .. 2 : ColumnData(db, n)[j] = PyNone /\ ColumnData(db, n)[k] # PyNone
    /\ \E n \in Names : Succeeded(get_column_data(db, n)) /\ ColumnData(db, n) = <<>>

\* C2: after a successful load of a file saved with one or more columns,
\* get_schema on the loaded Database is get_schema of the saving Database.
C2_SchemaOnLoad ==
    (res.op = "load" /\ Succeeded(res) /\ snap.seen.cols >= 1) =>
        \A h \in BOOLEAN : get_schema(db, h).ret.schema = snap.seen.schema[h]

\* C3: add_column with a name the Database contains fails with the
\* duplicate-column ValueError and changes nothing.
C3_DuplicateRejected ==
    [][(res'.op = "add_column" /\ res'.name \in ColumnNames(db)) =>
          /\ res'.cls = "ValueError" /\ res'.kind = "DuplicateColumn"
          /\ db' = db]_vars

\* the incompatible values the spec names: text or a fractional number for an
\* integer column, text for a float column, a non-string for a string column,
\* a non-boolean for a boolean column
Incompatible(type, v) ==
    CASE KindOf(type) = "int" -> v.k = "str" \/ (v.k = "float" /\ v.n % 4 # 0)
      [] KindOf(type) = "float" -> v.k = "str"
      [] KindOf(type) = "str" -> v.k # "str"
      [] OTHER -> v.k # "bool"

\* C4: insert of a non-NULL value incompatible with the column's declared
\* type fails with a type mismatch and appends nothing.
C4_TypeMismatchRejected ==
    [][(/\ res'.op = "insert" /\ res'.name \in ColumnNames(db) /\ res'.value # PyNone
        /\ Incompatible(DeclaredType(db, res'.name), res'.value)) =>
          /\ ~Succeeded(res') /\ res'.kind \in {"TypeMismatch", "InvalidLiteral"}
          /\ db'._db = db._db]_vars

\* C5: insert and get_column_data with a name that is not a column fail with
\* the unknown-column ValueError and change nothing.
C5_UnknownColumn ==
    [][(res'.op \in {"insert", "get_column_data"} /\ res'.name \notin ColumnNames(db)) =>
          /\ res'.cls = "ValueError" /\ res'.kind = "UnknownColumn"
          /\ db' = db /\ file' = file]_vars

\* a loaded Database holding data has refused an insert into a name it does not contain
C5_Witness ==
    /\ origin = "loaded" /\ NumEntries(db) > 0
    /\ res.op = "insert" /\ res.name \notin ColumnNames(db)
    /\ res.cls = "ValueError" /\ res.kind = "UnknownColumn"

\* C6: on a loaded Database, insert of NULL or of a value of the column's type
\* into a column it contains succeeds and appends exactly one entry, and
\* UnknownColumn is raised only for a name it does not contain.
C6_LoadedAcceptsInsert ==
    [][(res'.op = "insert" /\ origin = "loaded" /\ res'.name \in ColumnNames(db)) =>
          /\ res'.kind # "UnknownColumn"
          /\ (res'.value = PyNone \/ res'.value.k = KindOf(DeclaredType(db, res'.name))) =>
                /\ Succeeded(res')
                /\ Len(ColumnData(db', res'.name)) = Len(ColumnData(db, res'.name)) + 1]_vars

\* C7 as stated: in every state, add_column with a type outside the six
\* members fails with the invalid-type ValueError and creates no column; with
\* a member and a fresh name it succeeds.
C7_InvalidTypeAlways ==
    \A name \in Names, data_type \in TypeInputs :
        LET out == add_column(db, name, data_type)
        IN /\ data_type \notin DataTypes =>
                 /\ out.cls = "ValueError" /\ out.kind = "InvalidType"
                 /\ out.self = db
           /\ (data_type \in DataTypes /\ name \notin ColumnNames(db)) =>
                 /\ Succeeded(out)
                 /\ NumColumns(out.self) = NumColumns(db) + 1

\* C7 amended: in every state, add_column with a type outside the six members
\* fails with a ValueError and creates no column; the error is the
\* invalid-type one unless the name was already added to this instance by
\* add_column, and then it is the duplicate-column one.  With a member and a
\* fresh name it succeeds and creates an empty column of that type.
C7_InvalidType ==
    \A name \in Names, data_type \in TypeInputs :
        LET out == add_column(db, name, data_type)
        IN /\ data_type \notin DataTypes =>
                 /\ out.cls = "ValueError"
                 /\ out.kind = IF HasKey(db._columns, name) THEN "DuplicateColumn"
                               ELSE "InvalidType"
                 /\ out.self = db
           /\ (data_type \in DataTypes /\ name \notin ColumnNames(db)) =>
                 /\ Succeeded(out)
                 /\ NumColumns(out.self) = NumColumns(db) + 1
                 /\ ColumnNames(out.self) = ColumnNames(db) \cup {name}
                 /\ DeclaredType(out.self, name) = data_type
                 /\ ColumnData(out.self, name) = <<>>

\* a Database with columns has refused a type outside the enumeration as invalid
C7_Witness ==
    /\ res.op = "add_column"
    /\ res.cls = "ValueError" /\ res.kind = "InvalidType"
    /\ NumColumns(db) > 0

\* C8: insert of NULL into a column succeeds and appends exactly one entry,
\* read back as NULL at that position; the entries before it keep their
\* values and positions, and so do all entries under every later insert.
C8_NullTransparency ==
    [][/\ (res'.op = "insert" /\ res'.value = PyNone /\ res'.name \in ColumnNames(db)) =>
             /\ Succeeded(res')
             /\ ColumnData(db', res'.name) = Append(ColumnData(db, res'.name), PyNone)
       /\ res'.op = "insert" =>
             \A n \in ColumnNames(db) :
                 SubSeq(ColumnData(db', n), 1, Len(ColumnData(db, n))) = ColumnData(db, n)]_vars

\* C9: get_num_rows is the maximum over the columns of the number of entries
\* successfully inserted (NULL counted), 0 without columns or entries.
C9_NumRows ==
    /\ NumRows(db) = Max({inserted[n] : n \in ColumnNames(db)})
    /\ (res.op = "get_num_rows") => res.ret.num = Max({inserted[n] : n \in ColumnNames(db)})

\* ragged columns, the longer one holding a NULL
C9_Witness ==
    /\ res.op = "get_num_rows"
    /\ ColumnNames(db) = Names
    /\ \E n, m \in Names :
          /\ inserted[n] = 2 /\ inserted[m] = 0
          /\ \E j \in 1 .. 2 : ColumnData(db, n)[j] = PyNone
    /\ res.ret.num = 2

\* C10: get_num_columns is the number of columns: 0 on a fresh Database, one
\* more after each successful add_column, unchanged by insert, the get calls,
\* save and a failed add_column.
C10_NumColumns ==
    [][/\ res.op = "__init__" => NumColumns(db) = 0
       /\ res'.op = "get_num_columns" =>
             res'.ret.num = Cardinality({n \in Names : Succeeded(get_column_data(db, n))})
       /\ (res'.op = "add_column" /\ Succeeded(res')) => NumColumns(db') = NumColumns(db) + 1
       /\ (res'.op = "add_column" /\ ~Succeeded(res')) => NumColumns(db') = NumColumns(db)
       /\ res'.op \in {"insert", "get_column_data", "get_num_rows", "get_num_columns",
                       "get_schema", "save"} => NumColumns(db') = NumColumns(db)
       /\ res'.op = "get_num_columns" => res'.ret.num = NumColumns(db)]_vars

\* a second column has been added
C10_Witness ==
    /\ res.op = "add_column" /\ Succeeded(res)
    /\ NumColumns(db) = 2

\* what the instance reports is what the Database that wrote the file reported
SameAsSaved(self) ==
    /\ \A n \in Names :
          /\ get_column_data(self, n).cls = snap.seen.data[n].cls
          /\ ColumnData(self, n) = snap.seen.data[n].data
    /\ NumRows(self) = snap.seen.rows
    /\ NumColumns(self) = snap.seen.cols

\* C11: ColumnDB(filename) with the path of an existing saved file yields an
\* instance with the column count, row count and per-column data of the
\* Database saved to the file; with no filename or a path that does not exist
\* the instance is empty.
C11_ConstructorLoads ==
    res.op = "__init__" =>
        /\ (res.name = Path /\ snap.saved) => Succeeded(res) /\ SameAsSaved(db)
        /\ (res.name = "" \/ file = Absent) =>
              /\ Succeeded(res)
              /\ NumColumns(db) = 0 /\ NumRows(db) = 0
              /\ \A n \in Names : ~Succeeded(get_column_data(db, n))

\* C13: load of a path that does not exist or of a damaged file raises and
\* hands the caller no instance; load of an intact file returns the Database
\* that was written, whole.
C13_LoadAllOrNothing ==
    [][res'.op = "load" =>
          IF snap.saved
          THEN Succeeded(res') /\ SameAsSaved(db')
          ELSE /\ res'.cls = "RuntimeError"
               /\ res'.kind = IF file = Absent THEN "FileNotFound" ELSE "CorruptData"
               /\ db' = db /\ file' = file]_vars

\* a file with a sound header, damaged further in, has been refused
C13_Witness ==
    /\ res.op = "load" /\ res.cls = "RuntimeError" /\ res.kind = "CorruptData"
    /\ Len(file) > 6 /\ file[1] = Magic /\ file[2] = Version
    /\ NumColumns(db) = 0

\* C12: save, returning or failing, leaves the schema, the column count, the
\* row count and every column's entries as they were; a save that returns
\* has written the current entries.
C12_SaveDoesNotMutate ==
    [][res'.op = "save" =>
          /\ Observe(db') = Observe(db)
          /\ \A n \in ColumnNames(db) :
                n \in ColumnNames(db') /\ DeclaredType(db', n) = DeclaredType(db, n)
          /\ Succeeded(res') =>
                /\ Succeeded(load(Path, file'))
                /\ \A n \in Names :
                      get_column_data(load(Path, file').self, n).ret = get_column_data(db, n).ret]_vars

\* a Database holding two columns and entries has been saved
C12_Witness ==
    /\ res.op = "save" /\ Succeeded(res)
    /\ NumColumns(db) = 2 /\ NumEntries(db) = MaxEntries
    /\ file = Intact(db)

\* C14: a save that fails leaves the file at the path as it was: an absent
\* file stays absent, a valid file still loads to its previous contents; no
\* load ever sees a partly written file.
C14_SaveAtomic ==
    [][/\ (res'.op = "save" /\ ~Succeeded(res')) =>
             /\ file' = file
             /\ file # Absent => /\ Succeeded(load(Path, file'))
                                 /\ SameAsSaved(load(Path, file').self)
       /\ (res'.op = "load" /\ file # Absent) => Succeeded(res')]_vars

\* a save has failed over a file holding an earlier state of the Database
C14_Witness ==
    /\ res.op = "save" /\ res.cls = "RuntimeError" /\ res.kind = "IOError"
    /\ file # Absent /\ file # Intact(db)
    /\ NumEntries(db) > 0

\* the value as a column of the type holds it
AsTyped(type, v) == IF v.k = KindOf(type) THEN Stored(type, v) ELSE v

\* C15: a successful insert(name, v) makes column name one entry longer with
\* v (or NULL) at the new last position, and leaves every other column, the
\* schema and the column count as they were.
C15_ColumnsIndependent ==
    [][(res'.op = "insert" /\ Succeeded(res')) =>
          /\ ColumnData(db', res'.name) =
                Append(ColumnData(db, res'.name),
                       IF res'.value = PyNone THEN PyNone
                       ELSE AsTyped(DeclaredType(db, res'.name), res'.value))
          /\ \A n \in Names \ {res'.name} :
                /\ get_column_data(db', n).cls = get_column_data(db, n).cls
                /\ ColumnData(db', n) = ColumnData(db, n)
          /\ \A h \in BOOLEAN : get_schema(db', h).ret = get_schema(db, h).ret
          /\ NumColumns(db') = NumColumns(db)]_vars

\* C16: get_column_data of a column the Database contains returns one entry
\* per stored position, in order, NULL where the position holds no value; its
\* length is the column's own and not the row count; the call changes nothing.
C16_ReadOnlyProjection ==
    [][(res'.op = "get_column_data" /\ res'.name \in ColumnNames(db)) =>
          LET col == db._db[c_index(db._db, res'.name)]
          IN /\ Succeeded(res')
             /\ Len(res'.ret.data) = Len(col.values)
             /\ Len(res'.ret.data) = inserted[res'.name]
             /\ \A j \in 1 .. Len(col.values) :
                   res'.ret.data[j] = IF col.presence[j] THEN col.values[j] ELSE PyNone
             /\ db' = db /\ file' = file /\ inserted' = inserted]_vars

\* a column shorter than the row count has been read
C16_Witness ==
    /\ res.op = "get_column_data" /\ Succeeded(res)
    /\ Len(res.ret.data) < NumRows(db)
    /\ \E n \in Names : PyNone \in {ColumnData(db, n)[j] : j \in 1 .. Len(ColumnData(db, n))}

\* C17: under every operation on the instance a column stays, keeps its type,
\* and what get_column_data returned before is a prefix of what it returns after.
C17_AppendOnly ==
    [][(res'.op # "load" /\ db' # db) =>
          \A n \in ColumnNames(db) :
              /\ n \in ColumnNames(db')
              /\ Succeeded(get_column_data(db', n))
              /\ DeclaredType(db', n) = DeclaredType(db, n)
              /\ HasKey(db._columns, n) =>
                    /\ HasKey(db'._columns, n)
                    /\ Lookup(db'._columns, n) = Lookup(db._columns, n)
              /\ Len(ColumnData(db', n)) >= Len(ColumnData(db, n))
              /\ SubSeq(ColumnData(db', n), 1, Len(ColumnData(db, n))) = ColumnData(db, n)]_vars

\* a value has been appended after a NULL in a column next to another column
C17_Witness ==
    /\ res.op = "insert" /\ Succeeded(res) /\ res.value # PyNone
    /\ NumColumns(db) = 2
    /\ Len(ColumnData(db, res.name)) = 2
    /\ ColumnData(db, res.name)[1] = PyNone

\* every column's value sequence and presence sequence have one length
Aligned(self) ==
    \A i \in 1 .. Len(self._db) : Len(self._db[i].values) = Len(self._db[i].presence)

C19_SchemaConsistent ==
    LET schema == get_schema(db, TRUE).ret.schema
    IN /\ {schema[i].name : i \in 1 .. Len(schema)} = ColumnNames(db)
       /\ Len(schema) = NumColumns(db)

====
